---- MODULE Spec2Model ----
(***************************************************************************)
(* Model of kafka_performance_test/data_generator/dummy_data_generator.py: *)
(* main() loads a schema file and DataGenerator.generate_dummy_data writes *)
(* num_records JSON lines to <output_folder>/<N>_<schema_name>.jsonl.      *)
(*                                                                         *)
(* Text is a sequence of tokens (a doc "NUMBER(2,1)" is                     *)
(* <<"NUMBER(", "2", ",", "1", ")">>), a real number is m / 10^e, and the  *)
(* random source random() is the fraction r / RandDen, r \in 0..RandDen.   *)
(***************************************************************************)
EXTENDS Integers, Sequences, FiniteSets, TLC

\* ---------------------------------------------------------------- bounds
MaxRecords == 2
MaxRuns == 2
RandDen == 2

\* ------------------------------------------------------- program constants
IntMax == 999999
DoubleDefaultMax == 99999999
DoubleDefaultScale == 2

\* ------------------------------------------------------------ text tokens
Digits == {"0", "1", "2", "3", "4", "5", "6", "7", "8", "9"}

DigitVal(d) ==
    CASE d = "0" -> 0 [] d = "1" -> 1 [] d = "2" -> 2 [] d = "3" -> 3
      [] d = "4" -> 4 [] d = "5" -> 5 [] d = "6" -> 6 [] d = "7" -> 7
      [] d = "8" -> 8 [] d = "9" -> 9

\* str.lower() on one token
LowerTok(t) ==
    CASE t = "NUMBER(" -> "number("
      [] t = "Number(" -> "number("
      [] t = "EMAIL" -> "email"
      [] t = "Name" -> "name"
      [] t = "X" -> "x"
      [] OTHER -> t

\* str.lower()
Lower(doc) == [k \in 1..Len(doc) |-> LowerTok(doc[k])]

\* the letters faker's lexify draws from (a sample of string.ascii_letters)
Letters == {"a", "Z"}

\* ----------------------------------------------------------------- values
VInt(n) == [k |-> "int", m |-> n, e |-> 0, s |-> <<>>]
VFloat(m, e) == [k |-> "float", m |-> m, e |-> e, s |-> <<>>]
VStr(s) == [k |-> "str", m |-> 0, e |-> 0, s |-> s]

RECURSIVE Pow10(_)
Pow10(n) == IF n = 0 THEN 1 ELSE 10 * Pow10(n - 1)

\* int(match.group(k)) on a run of digit tokens
RECURSIVE ParseInt(_)
ParseInt(ds) ==
    IF ds = <<>> THEN 0
    ELSE 10 * ParseInt(SubSeq(ds, 1, Len(ds) - 1)) + DigitVal(ds[Len(ds)])

\* number of leading digit tokens of a text (what \d+ can consume)
RECURSIVE DigitRun(_)
DigitRun(t) ==
    IF t # <<>> /\ t[1] \in Digits THEN 1 + DigitRun(Tail(t)) ELSE 0

Drop(t, n) == SubSeq(t, n + 1, Len(t))

\* re.match(r'number\((\d+),(\d+)\)', doc): anchored at the start only
parse_number_format(doc) ==
    IF doc = <<>> \/ doc[1] # "number(" THEN [ok |-> FALSE, precision |-> 0, scale |-> 0]
    ELSE LET r1 == Tail(doc)
             n1 == DigitRun(r1)
             r2 == Drop(r1, n1)
             r3 == IF r2 = <<>> THEN <<>> ELSE Tail(r2)
             n2 == DigitRun(r3)
             r4 == Drop(r3, n2)
         IN IF n1 >= 1 /\ r2 # <<>> /\ r2[1] = "," /\ n2 >= 1
               /\ r4 # <<>> /\ r4[1] = ")"
            THEN [ok |-> TRUE,
                  precision |-> ParseInt(SubSeq(r1, 1, n1)),
                  scale |-> ParseInt(SubSeq(r3, 1, n2))]
            ELSE [ok |-> FALSE, precision |-> 0, scale |-> 0]

\* a plausible slip: the "- 1" forgotten
MaxValueNoMinusOne(precision, scale) ==
    IF precision >= scale
    THEN [m |-> Pow10(precision - scale), e |-> 0]
    ELSE [m |-> 1, e |-> scale - precision]

\* 10**(precision - scale) - 1, as m / 10^e (a float when precision < scale)
MaxValue(precision, scale) ==
    IF precision >= scale
    THEN [m |-> Pow10(precision - scale) - 1, e |-> 0]
    ELSE [m |-> 1 - Pow10(scale - precision), e |-> scale - precision]

\* random.uniform(a, b) = a + (b - a) * random(), a an integer, b = m / 10^e
Uniform(a, b) ==
    { [num |-> a * Pow10(b.e) * RandDen + (b.m - a * Pow10(b.e)) * r,
       den |-> Pow10(b.e) * RandDen] : r \in 0..RandDen }

\* random.randint(a, b)
Randint(a, b) == { a + ((b - a) * r) \div RandDen : r \in 0..RandDen }

RoundHalfEven(num, den) ==
    LET q == num \div den
        rem == num % den
    IN IF 2 * rem < den THEN q
       ELSE IF 2 * rem > den THEN q + 1
       ELSE IF q % 2 = 0 THEN q ELSE q + 1

RECURSIVE Normalize(_, _)
Normalize(m, e) ==
    IF e > 0 /\ m % 10 = 0 THEN Normalize(m \div 10, e - 1) ELSE VFloat(m, e)

\* round(x, ndigits) for x = num / den: the nearest decimal with ndigits
\* fractional digits, printed in its shortest form
RECURSIVE RoundAt(_, _, _)
RoundAt(x, ndigits, e) ==
    IF (x.num * Pow10(e)) % x.den = 0 THEN VFloat((x.num * Pow10(e)) \div x.den, e)
    ELSE IF e >= ndigits THEN Normalize(RoundHalfEven(x.num * Pow10(e), x.den), e)
    ELSE RoundAt(x, ndigits, e + 1)

Round(x, ndigits) == RoundAt(x, ndigits, 0)

\* ------------------------------------------------- field value synthesis
Value(v) == [o |-> "value", v |-> v, exc |-> ""]
None == [o |-> "none", v |-> VInt(0), exc |-> ""]
Raise(exc) == [o |-> "raise", v |-> VInt(0), exc |-> exc]

\* '?' * max_length (empty for max_length <= 0)
RECURSIVE Repeat(_, _)
Repeat(c, n) == IF n <= 0 THEN <<>> ELSE <<c>> \o Repeat(c, n - 1)

\* fake.lexify(text): every '?' replaced by a random letter
RECURSIVE Lexify(_)
Lexify(text) ==
    IF text = <<>> THEN {<<>>}
    ELSE { <<c>> \o rest : c \in (IF text[1] = "?" THEN Letters ELSE {text[1]}),
                           rest \in Lexify(Tail(text)) }

\* isinstance(field['type'], dict) and the shape test of the nested object
handle_complex_type(field) ==
    IF field.type.dict
    THEN IF "type" \notin DOMAIN field.type.obj THEN {Raise("KeyError: 'type'")}
         ELSE IF field.type.obj.type = "string" /\ "maxLength" \in DOMAIN field.type.obj
              THEN IF field.type.obj.maxLength.k # "int" THEN {Raise("TypeError")}
                   ELSE { Value(VStr(s)) :
                            s \in Lexify(Repeat("?", field.type.obj.maxLength.n)) }
              ELSE {None}
    ELSE {None}

\* field.get("doc", "").lower()
FieldDoc(field) == Lower(IF "doc" \in DOMAIN field THEN field.doc ELSE <<>>)

\* field_type == '<tag>' (a dict never equals a string)
TypeIs(t, tag) == ~t.dict /\ t.tag = tag

\* the faker providers, one plausible result each
NL == "<LF>"
EscNL == "<backslash-n>"
FakeEmail == <<"user", "@", "example.org">>
FakeName == <<"Ann", " ", "Lee">>
FakeAddress == <<"1 Main St", NL, "Springfield">>
FakePostcode == <<"12345">>
FakeCreditCard == <<"4111111111111111">>
FakeDateTimeIso == <<"2001-02-03", "T", "04:05:06">>
FakeDate == <<"2001-02-03">>
FakeWord == <<"word">>

\* the doc dispatch of a 'string' field
StringValue(doc) ==
    IF doc = <<"email">> THEN FakeEmail
    ELSE IF doc = <<"name">> THEN FakeName
    ELSE IF doc = <<"address">> THEN FakeAddress
    ELSE IF doc = <<"postcode">> THEN FakePostcode
    ELSE IF doc = <<"credit_card_number">> THEN FakeCreditCard
    ELSE IF doc = <<"timestamp_ntz">> THEN FakeDateTimeIso
    ELSE IF doc = <<"date">> THEN FakeDate
    ELSE FakeWord

\* doc.startswith('number(')
StartsWithNumber(doc) == doc # <<>> /\ doc[1] = "number("

\* a plausible slip: a doc that fails to parse falls back to the default range
DoubleOutcomesFallback(doc) ==
    IF StartsWithNumber(doc) /\ parse_number_format(doc).ok
    THEN LET ps == parse_number_format(doc)
         IN { Value(Round(x, ps.scale)) :
                x \in Uniform(0, MaxValue(ps.precision, ps.scale)) }
    ELSE { Value(Round(x, DoubleDefaultScale)) :
             x \in Uniform(0, [m |-> DoubleDefaultMax, e |-> 0]) }

\* the 'double' branch
DoubleOutcomes(doc) ==
    IF StartsWithNumber(doc)
    THEN LET ps == parse_number_format(doc)
         IN IF ps.ok
            THEN { Value(Round(x, ps.scale)) :
                     x \in Uniform(0, MaxValue(ps.precision, ps.scale)) }
            ELSE {None}
    ELSE { Value(Round(x, DoubleDefaultScale)) :
             x \in Uniform(0, [m |-> DoubleDefaultMax, e |-> 0]) }

\* the basic-type dispatch
BasicOutcomes(field) ==
    IF TypeIs(field.type, "int") THEN { Value(VInt(n)) : n \in Randint(0, IntMax) }
    ELSE IF TypeIs(field.type, "string") THEN { Value(VStr(StringValue(FieldDoc(field)))) }
    ELSE IF TypeIs(field.type, "double") THEN DoubleOutcomes(FieldDoc(field))
    ELSE {None}

\* a plausible slip: `if complex_value:` instead of `is not None`
FieldOutcomesTruthy(field) ==
    UNION { IF c.o = "none" \/ (c.o = "value" /\ c.v.s = <<>>)
            THEN BasicOutcomes(field) ELSE {c} :
            c \in handle_complex_type(field) }

\* one pass of the loop body over a field: what is stored, or what is raised
FieldOutcomes(field) ==
    UNION { IF c.o = "none" THEN BasicOutcomes(field) ELSE {c} :
            c \in handle_complex_type(field) }

\* ------------------------------------------------------------- the record
HasKey(rec, name) == \E k \in 1..Len(rec) : rec[k].name = name
Lookup(rec, name) == rec[CHOOSE k \in 1..Len(rec) : rec[k].name = name].v
Keys(rec) == { rec[k].name : k \in 1..Len(rec) }

\* a plausible slip: the first value stored under a name is kept
DictSetFirst(rec, name, v) ==
    IF HasKey(rec, name) THEN rec ELSE Append(rec, [name |-> name, v |-> v])

\* a plausible slip: a falsy value (0, 0.0, '') is not stored
DictSetTruthy(rec, name, v) ==
    IF (v.k = "str" /\ v.s = <<>>) \/ (v.k # "str" /\ v.m = 0) THEN rec
    ELSE IF HasKey(rec, name)
    THEN [k \in 1..Len(rec) |-> IF rec[k].name = name THEN [name |-> name, v |-> v] ELSE rec[k]]
    ELSE Append(rec, [name |-> name, v |-> v])

\* record[field_name] = value
DictSet(rec, name, v) ==
    IF HasKey(rec, name)
    THEN [k \in 1..Len(rec) |-> IF rec[k].name = name THEN [name |-> name, v |-> v] ELSE rec[k]]
    ELSE Append(rec, [name |-> name, v |-> v])

\* ---------------------------------------------------------- serialisation
JsonTok(obj) == [t |-> "json", obj |-> obj]
NewlineTok == [t |-> "nl", obj |-> <<>>]
StaleTok == [t |-> "text", obj |-> <<>>]

\* JSON string escaping: a raw line feed never reaches the output
EscapeStr(s) == [k \in 1..Len(s) |-> IF s[k] = NL THEN EscNL ELSE s[k]]

JsonValue(v) == IF v.k = "str" THEN VStr(EscapeStr(v.s)) ELSE v

\* json.dumps(record): the members in insertion order
JsonDumps(rec) ==
    JsonTok([k \in 1..Len(rec) |-> [name |-> rec[k].name, v |-> JsonValue(rec[k].v)]])

\* a plausible slip: records joined with no line terminator
WriteLineNoNewline(content, rec) == content \o <<JsonDumps(rec)>>

\* outfile.write(json.dumps(record) + '\n')
WriteLine(content, rec) == content \o <<JsonDumps(rec), NewlineTok>>

\* a plausible slip: open(output_file, 'a')
OpenAppend(content) == content

\* open(output_file, 'w'): the content after opening, given the old content
OpenTruncate(content) == <<>>

\* ------------------------------------------------------- schema documents
Prim(tag) == [dict |-> FALSE, tag |-> tag]
Dict(obj) == [dict |-> TRUE, obj |-> obj]
JInt(n) == [k |-> "int", n |-> n]
JStr == [k |-> "str", n |-> 0]

F(name, type) == [name |-> name, type |-> type]
FD(name, type, doc) == [name |-> name, type |-> type, doc |-> doc]

NestedString(n) == Dict([type |-> "string", maxLength |-> JInt(n)])

\* the field lists of the schema documents the runs are given
FieldLists == <<
    <<>>,
    <<F("a", Prim("int"))>>,
    <<F("a", Prim("string"))>>,
    <<FD("a", Prim("string"), <<"Name">>), FD("b", Prim("string"), <<"postcode">>),
      FD("c", Prim("string"), <<"credit_card_number">>)>>,
    <<FD("a", Prim("string"), <<"timestamp_ntz">>), FD("b", Prim("string"), <<"date">>),
      FD("c", Prim("string"), <<"email", " ">>)>>,
    <<FD("a", Prim("string"), <<"address">>)>>,
    <<F("a", Prim("double"))>>,
    <<FD("a", Prim("double"), <<"x", "number(", "2", ",", "1", ")">>)>>,
    <<FD("a", Prim("double"), <<"NUMBER(", "2", ",", "1", ")">>)>>,
    <<FD("a", Prim("double"), <<"number(", "2", ",", "0", ")">>)>>,
    <<FD("a", Prim("double"), <<"number(", "1", ",", "2", ")">>)>>,
    <<FD("a", Prim("double"), <<"number(", "0", ",", "1", ")">>)>>,
    <<FD("a", Prim("double"), <<"number(", "1", ",", "1", ")">>)>>,
    <<FD("a", Prim("double"), <<"Number(", "0", "3", ",", "1", ")">>)>>,
    <<FD("a", Prim("double"), <<"number(", "2", ",", "1", ")", "x">>)>>,
    <<FD("a", Prim("double"), <<"number(", "2", ",", " ", "1", ")">>)>>,
    <<FD("a", Prim("double"), <<"number(", "2", ")">>)>>,
    <<FD("a", Prim("double"), <<"number(", "2", ",", "1">>)>>,
    <<FD("a", Prim("double"), <<"number(", "-", "2", ",", "1", ")">>)>>,
    <<F("a", Prim("boolean"))>>,
    <<FD("a", Prim("float"), <<"email">>), F("b", Prim("int"))>>,
    <<F("a", NestedString(2))>>,
    <<F("a", NestedString(0))>>,
    <<FD("a", NestedString(1), <<"EMAIL">>), F("b", Prim("boolean"))>>,
    <<F("a", Dict([type |-> "string"]))>>,
    <<F("a", Dict([type |-> "int", maxLength |-> JInt(2)]))>>,
    <<F("a", Dict([maxLength |-> JInt(2)]))>>,
    <<F("a", Dict([type |-> "string", maxLength |-> JStr]))>>,
    <<F("a", Dict([other |-> JInt(1)]))>>,
    <<F("a", Prim("int")), FD("a", Prim("string"), <<"EMAIL">>)>>,
    <<FD("a", Prim("string"), <<"email">>), F("a", Prim("boolean"))>>,
    <<F("b", Prim("string")), F("a", Prim("boolean")), F("b", NestedString(1))>>,
    <<F("a", Prim("int")), F("b", Dict([items |-> JInt(1)]))>>,
    <<F("a", NestedString(1)), FD("b", Prim("double"), <<"number(", ")">>)>>
>>

Json(doc) == [kind |-> "json", doc |-> doc]
Malformed == [kind |-> "malformed", doc |-> [none |-> TRUE]]

\* the schema files on disk: a path and what the file holds
SchemaFiles ==
    [k \in 1..Len(FieldLists) |->
        [path |-> <<"schemas", "/", ToString(k), ".json">>,
         content |-> Json([fields |-> FieldLists[k]])]]
    \o << [path |-> <<"nofields", ".v1", ".avsc">>,
           content |-> Json([name |-> "user"])],
          [path |-> <<"/", "tmp", "/", "broken">>,
           content |-> Malformed] >>

MissingPath == <<"schemas", "/", "absent", ".json">>

\* ------------------------------------------------------------------ paths
Exts == {".json", ".avsc", ".v1"}

\* os.path.basename: what follows the last separator
RECURSIVE Basename(_)
Basename(path) ==
    IF \E k \in 1..Len(path) : path[k] = "/" THEN Basename(Tail(path)) ELSE path

\* os.path.splitext(...)[0]: the last extension, if any, removed
SplitextRoot(base) ==
    IF Len(base) >= 2 /\ base[Len(base)] \in Exts
    THEN SubSeq(base, 1, Len(base) - 1) ELSE base

\* os.path.join(output_folder, f"{num_records}_{schema_name}.jsonl")
OutputFile(folder, n, name) == [dir |-> folder, n |-> n, stem |-> name, ext |-> ".jsonl"]

\* ----------------------------------------------------------------- state
VARIABLES
    schema_file,    \* argument -s
    num_records,    \* argument -n
    output_folder,  \* argument -o
    dirs,           \* the directories that exist
    files,          \* the output files that exist: path -> content
    pc,             \* where the run is
    err,            \* the exception that ended the run, "" if none
    schema,         \* the loaded schema document
    schema_name,    \* the schema file's name without directory and extension
    output_file,    \* the path the run writes to
    i,              \* records written so far in this run
    j,              \* index of the next field of the record being built
    record,         \* the record being built
    runs            \* how many times the command has been started

vars == <<schema_file, num_records, output_folder, dirs, files, pc, err, schema,
          schema_name, output_file, i, j, record, runs>>

args == <<schema_file, num_records, output_folder>>

NoSchema == [unset |-> TRUE]
NoFile == [dir |-> "", n |-> 0, stem |-> <<>>, ext |-> ""]
NoFiles == [f \in {} |-> <<>>]

\* what an earlier, unrelated writer may have left in the output file
StaleContent == <<StaleTok, NewlineTok, StaleTok, NewlineTok, StaleTok, NewlineTok,
                  StaleTok, NewlineTok, StaleTok>>

OnDisk(path) == \E k \in 1..Len(SchemaFiles) : SchemaFiles[k].path = path
DiskContent(path) ==
    SchemaFiles[CHOOSE k \in 1..Len(SchemaFiles) : SchemaFiles[k].path = path].content

\* a plausible slip: a load failure swallowed, an empty schema returned
load_schema_lenient(path) ==
    IF OnDisk(path) /\ DiskContent(path).kind = "json"
    THEN [exc |-> "", schema |-> DiskContent(path).doc]
    ELSE [exc |-> "", schema |-> [fields |-> <<>>]]

\* open(schema_file, 'r') and json.load(file)
load_schema_from_file(path) ==
    IF ~OnDisk(path) THEN [exc |-> "FileNotFoundError", schema |-> NoSchema]
    ELSE IF DiskContent(path).kind # "json"
    THEN [exc |-> "JSONDecodeError", schema |-> NoSchema]
    ELSE [exc |-> "", schema |-> DiskContent(path).doc]

\* a plausible slip: schema.get('fields', [])
SchemaFieldsGet(sch) ==
    IF "fields" \in DOMAIN sch THEN [exc |-> "", fields |-> sch.fields]
    ELSE [exc |-> "", fields |-> <<>>]

\* schema['fields']
SchemaFields(sch) ==
    IF "fields" \in DOMAIN sch THEN [exc |-> "", fields |-> sch.fields]
    ELSE [exc |-> "KeyError: 'fields'", fields |-> <<>>]

Init ==
    /\ \E path \in {SchemaFiles[k].path : k \in 1..Len(SchemaFiles)} \cup {MissingPath} :
          schema_file = path
    /\ num_records \in 0..MaxRecords
    /\ output_folder = "target"
    /\ \E pre \in {"no folder", "empty folder", "stale file"} :
          /\ dirs = IF pre = "no folder" THEN {} ELSE {output_folder}
          /\ files = IF pre = "stale file"
                     THEN OutputFile(output_folder, num_records,
                                     SplitextRoot(Basename(schema_file))) :> StaleContent
                     ELSE NoFiles
    /\ pc = "main"
    /\ err = ""
    /\ schema = NoSchema
    /\ schema_name = <<>>
    /\ output_file = NoFile
    /\ i = 0
    /\ j = 0
    /\ record = <<>>
    /\ runs = 1

\* main: generator.load_schema_from_file(schema_file), then the schema name
LoadSchema ==
    /\ pc = "main"
    /\ LET r == load_schema_from_file(schema_file)
       IN IF r.exc # ""
          THEN /\ pc' = "failed"
               /\ err' = r.exc
               /\ UNCHANGED <<schema, schema_name>>
          ELSE /\ pc' = "generate"
               /\ schema' = r.schema
               /\ schema_name' = SplitextRoot(Basename(schema_file))
               /\ err' = ""
    /\ UNCHANGED <<args, dirs, files, output_file, i, j, record, runs>>

\* generate_dummy_data: os.makedirs(output_folder, exist_ok=True), output_file
MakeDirs ==
    /\ pc = "generate"
    /\ dirs' = dirs \cup {output_folder}
    /\ output_file' = OutputFile(output_folder, num_records, schema_name)
    /\ pc' = "open"
    /\ UNCHANGED <<args, files, err, schema, schema_name, i, j, record, runs>>

\* with open(output_file, 'w') as outfile
OpenOutfile ==
    /\ pc = "open"
    /\ files' = (output_file :>
                   OpenTruncate(IF output_file \in DOMAIN files
                                THEN files[output_file] ELSE <<>>)) @@ files
    /\ i' = 0
    /\ pc' = "loop"
    /\ UNCHANGED <<args, dirs, err, schema, schema_name, output_file, j, record, runs>>

\* for _ in range(num_records): record = {}; for field in schema['fields']
BeginRecord ==
    /\ pc = "loop"
    /\ i < num_records
    /\ record' = <<>>
    /\ IF SchemaFields(schema).exc # ""
       THEN /\ pc' = "failed"
            /\ err' = SchemaFields(schema).exc
            /\ j' = 0
       ELSE /\ pc' = "field"
            /\ j' = 1
            /\ err' = ""
    /\ UNCHANGED <<args, dirs, files, schema, schema_name, output_file, i, runs>>

\* the body of the field loop, for field number j
VisitField ==
    /\ pc = "field"
    /\ j <= Len(schema.fields)
    /\ \E out \in FieldOutcomes(schema.fields[j]) :
          IF out.o = "raise"
          THEN /\ pc' = "failed"
               /\ err' = out.exc
               /\ UNCHANGED <<record, j>>
          ELSE /\ record' = IF out.o = "value"
                            THEN DictSet(record, schema.fields[j].name, out.v)
                            ELSE record
               /\ j' = j + 1
               /\ UNCHANGED <<pc, err>>
    /\ UNCHANGED <<args, dirs, files, schema, schema_name, output_file, i, runs>>

\* outfile.write(json.dumps(record) + '\n'), after the last field
WriteRecord ==
    /\ pc = "field"
    /\ j > Len(schema.fields)
    /\ files' = [files EXCEPT ![output_file] = WriteLine(@, record)]
    /\ i' = i + 1
    /\ pc' = "loop"
    /\ UNCHANGED <<args, dirs, err, schema, schema_name, output_file, j, record, runs>>

\* the loop is exhausted: the file is closed and the path reported
Finish ==
    /\ pc = "loop"
    /\ i >= num_records
    /\ pc' = "done"
    /\ UNCHANGED <<args, dirs, files, err, schema, schema_name, output_file, i, j,
                   record, runs>>

\* the operator starts the same command again
Rerun ==
    /\ pc \in {"done", "failed"}
    /\ runs < MaxRuns
    /\ runs' = runs + 1
    /\ pc' = "main"
    /\ err' = ""
    /\ schema' = NoSchema
    /\ schema_name' = <<>>
    /\ output_file' = NoFile
    /\ i' = 0
    /\ j' = 0
    /\ record' = <<>>
    /\ UNCHANGED <<args, dirs, files>>

Next ==
    \/ LoadSchema
    \/ MakeDirs
    \/ OpenOutfile
    \/ BeginRecord
    \/ VisitField
    \/ WriteRecord
    \/ Finish
    \/ Rerun

Spec == Init /\ [][Next]_vars

\* ======================================================== the properties
\* the run has opened its output file (and may have closed it again)
Opened == pc \in {"loop", "field", "done"} \/ (pc = "failed" /\ output_file # NoFile)

Content == files[output_file]

\* the serialised records in a file content, in order
JsonLines(content) ==
    SelectSeq(content, LAMBDA tok : tok.t = "json")

\* line feeds in a file content: the terminators and any raw one inside a record
RawLineFeeds(tok) ==
    IF tok.t = "nl" THEN 1
    ELSE IF tok.t = "json"
    THEN Cardinality({ <<k, c>> \in (1..Len(tok.obj)) \X (1..3) :
                         /\ c <= Len(tok.obj[k].v.s)
                         /\ tok.obj[k].v.s[c] = NL })
    ELSE 0

RECURSIVE LineFeeds(_)
LineFeeds(content) ==
    IF content = <<>> THEN 0 ELSE RawLineFeeds(content[1]) + LineFeeds(Tail(content))

\* the field just visited, when the loop body has run for it without raising
Visited == pc = "field" /\ j > 1
LastField == schema.fields[j - 1]
FirstOfItsName == \A k \in 1..(j - 2) : schema.fields[k].name # LastField.name

\* the schema file cannot be loaded: it is missing or does not parse
LoadFails == ~OnDisk(schema_file) \/ DiskContent(schema_file).kind # "json"

\* the schema file parses but has no `fields` key
LacksFields == ~LoadFails /\ "fields" \notin DOMAIN DiskContent(schema_file).doc

\* ------------------------------------------------------------------- C1
\* C1: a completed run leaves exactly num_records lines in the output file,
\* each one record followed by a line feed; num_records = 0 leaves it empty.
C1_ExactlyNLines ==
    pc = "done" =>
        /\ LineFeeds(Content) = num_records
        /\ Len(Content) = 2 * num_records
        /\ \A k \in 1..Len(Content) :
              Content[k].t = (IF k % 2 = 1 THEN "json" ELSE "nl")
        /\ (num_records = 0 => Content = <<>>)

\* a completed run of two records whose values hold an (escaped) line feed
C1_Witness ==
    /\ pc = "done"
    /\ num_records = 2
    /\ Len(Content) = 4
    /\ \E k \in 1..Len(Content[1].obj) :
          \E c \in 1..Len(Content[1].obj[k].v.s) : Content[1].obj[k].v.s[c] = EscNL

\* ------------------------------------------------------------------- C2
\* a field definition of a silent-omission kind: an unrecognized primitive
\* type, a nested type object that is not {type: "string", maxLength: ...},
\* or a double whose number( annotation does not parse
OmissionKind(f) ==
    \/ ~f.type.dict /\ f.type.tag \notin {"int", "string", "double"}
    \/ /\ f.type.dict
       /\ ~ ( /\ "type" \in DOMAIN f.type.obj
              /\ f.type.obj.type = "string"
              /\ "maxLength" \in DOMAIN f.type.obj )
    \/ /\ TypeIs(f.type, "double")
       /\ StartsWithNumber(FieldDoc(f))
       /\ ~parse_number_format(FieldDoc(f)).ok

\* C2: a field of a silent-omission kind never raises: visiting it leaves
\* the record as it was and the run goes on to the next field.
C2_SilentOmissionNeverRaises ==
    /\ (pc = "failed" /\ j >= 1) => ~OmissionKind(schema.fields[j])
    /\ (Visited /\ OmissionKind(LastField) /\ FirstOfItsName)
          => ~HasKey(record, LastField.name)

\* ------------------------------------------------------------------- C3
\* v <= 10^(precision - scale) - 1 and v >= 0, for v = m / 10^e
C3_InRange(v, precision, scale) ==
    /\ v.m >= 0
    /\ IF precision >= scale
       THEN v.m <= (Pow10(precision - scale) - 1) * Pow10(v.e)
       ELSE v.m * Pow10(scale - precision) <= (1 - Pow10(scale - precision)) * Pow10(v.e)

C3_NumberField(f) ==
    /\ TypeIs(f.type, "double")
    /\ StartsWithNumber(FieldDoc(f))
    /\ parse_number_format(FieldDoc(f)).ok

C3_ValueOk(f) ==
    LET ps == parse_number_format(FieldDoc(f))
    IN /\ HasKey(record, f.name)
       /\ Lookup(record, f.name).k = "float"
       /\ C3_InRange(Lookup(record, f.name), ps.precision, ps.scale)
       /\ Lookup(record, f.name).e <= ps.scale

\* C3 as stated: for every precision and scale the value of a number(p,s)
\* double lies in [0, 10^(p-s) - 1] and has at most s fractional digits.
C3_Original ==
    (Visited /\ C3_NumberField(LastField)) => C3_ValueOk(LastField)

\* C3 amended: the same, for precision >= scale.
C3_RangeWhenPrecisionCoversScale ==
    ( /\ Visited
      /\ C3_NumberField(LastField)
      /\ parse_number_format(FieldDoc(LastField)).precision
           >= parse_number_format(FieldDoc(LastField)).scale )
    => C3_ValueOk(LastField)

\* a number(2,1) field that has just received a value with a fractional digit
C3_Witness ==
    /\ Visited
    /\ C3_NumberField(LastField)
    /\ parse_number_format(FieldDoc(LastField)).precision = 2
    /\ parse_number_format(FieldDoc(LastField)).scale = 1
    /\ HasKey(record, LastField.name)
    /\ Lookup(record, LastField.name).e = 1

\* ------------------------------------------------------------------- C4
\* doc is exactly number(<digits>,<digits>)
C4_ExactForm(doc) ==
    /\ Len(doc) >= 5
    /\ doc[1] = "number("
    /\ doc[Len(doc)] = ")"
    /\ \E c \in 3..(Len(doc) - 2) :
          /\ doc[c] = ","
          /\ \A k \in 2..(c - 1) : doc[k] \in Digits
          /\ \A k \in (c + 1)..(Len(doc) - 1) : doc[k] \in Digits

\* doc begins with a complete number(<digits>,<digits>)
C4_PrefixForm(doc) == \E n \in 1..Len(doc) : C4_ExactForm(SubSeq(doc, 1, n))

C4_Omitted(f) == FirstOfItsName => ~HasKey(record, f.name)

\* C4 as stated: a double whose doc begins with number( and is not exactly
\* number(p,s) gets no value.
C4_Original ==
    ( /\ Visited
      /\ TypeIs(LastField.type, "double")
      /\ StartsWithNumber(FieldDoc(LastField))
      /\ ~C4_ExactForm(FieldDoc(LastField)) )
    => C4_Omitted(LastField)

\* C4 amended: a double whose doc begins with number( but does not begin
\* with a complete number(p,s) gets no value (text after the closing
\* parenthesis does not count).
C4_OmittedWhenPrefixDoesNotParse ==
    ( /\ Visited
      /\ TypeIs(LastField.type, "double")
      /\ StartsWithNumber(FieldDoc(LastField))
      /\ ~C4_PrefixForm(FieldDoc(LastField)) )
    => C4_Omitted(LastField)

\* a double field with an unparsable number( doc has been visited
C4_Witness ==
    /\ Visited
    /\ TypeIs(LastField.type, "double")
    /\ StartsWithNumber(FieldDoc(LastField))
    /\ ~C4_PrefixForm(FieldDoc(LastField))
    /\ record = <<>>
    /\ j > Len(schema.fields)

\* ------------------------------------------------------------------- C5
FieldNames == { schema.fields[k].name : k \in 1..Len(schema.fields) }

\* the field definition produces a value
Produces(f) == \E out \in FieldOutcomes(f) : out.o = "value"

\* the serialised values the field definition can produce
SerialisedValues(f) ==
    { JsonValue(out.v) : out \in { o \in FieldOutcomes(f) : o.o = "value" } }

\* the last definition, in schema order, of that name that produces a value
LastProducer(name) ==
    CHOOSE k \in 1..Len(schema.fields) :
        /\ schema.fields[k].name = name
        /\ Produces(schema.fields[k])
        /\ \A l \in (k + 1)..Len(schema.fields) :
              ~(schema.fields[l].name = name /\ Produces(schema.fields[l]))

C5_LineOk(obj) ==
    /\ \A k \in 1..Len(obj) : obj[k].name \in FieldNames
    /\ \A k, l \in 1..Len(obj) : obj[k].name = obj[l].name => k = l
    /\ \A k \in 1..Len(obj) :
          /\ \E l \in 1..Len(schema.fields) :
                schema.fields[l].name = obj[k].name /\ Produces(schema.fields[l])
          /\ obj[k].v \in SerialisedValues(schema.fields[LastProducer(obj[k].name)])

\* C5: every record written has only schema field names as keys, each name
\* once, and under a name defined several times the value of the last
\* definition, in schema order, that wrote one.
C5_KeysSubsetLastWins ==
    Opened => \A n \in 1..Len(JsonLines(Content)) : C5_LineOk(JsonLines(Content)[n].obj)

\* a record has been written for a schema that defines one name twice, both
\* definitions producing a value
C5_Witness ==
    /\ Opened
    /\ Len(JsonLines(Content)) >= 1
    /\ \E k, l \in 1..Len(schema.fields) :
          /\ k < l
          /\ schema.fields[k].name = schema.fields[l].name
          /\ Produces(schema.fields[k])
          /\ Produces(schema.fields[l])

\* ------------------------------------------------------------------- C6
\* the type is an object {type: "string", maxLength: n} with n >= 0
C6_NestedString(f) ==
    /\ f.type.dict
    /\ "type" \in DOMAIN f.type.obj
    /\ f.type.obj.type = "string"
    /\ "maxLength" \in DOMAIN f.type.obj
    /\ f.type.obj.maxLength.k = "int"
    /\ f.type.obj.maxLength.n >= 0

\* C6: a field whose type is {type: "string", maxLength: n} never raises and,
\* whatever its doc, gets a string of exactly n letters under its name.
C6_NestedStringWins ==
    /\ (pc = "failed" /\ j >= 1) => ~C6_NestedString(schema.fields[j])
    /\ (Visited /\ C6_NestedString(LastField)) =>
          /\ HasKey(record, LastField.name)
          /\ Lookup(record, LastField.name).k = "str"
          /\ Len(Lookup(record, LastField.name).s) = LastField.type.obj.maxLength.n
          /\ \A c \in 1..Len(Lookup(record, LastField.name).s) :
                Lookup(record, LastField.name).s[c] \in Letters

\* a nested string field that carries a doc hint has been visited
C6_Witness ==
    /\ Visited
    /\ C6_NestedString(LastField)
    /\ "doc" \in DOMAIN LastField
    /\ FieldDoc(LastField) = <<"email">>
    /\ HasKey(record, LastField.name)
    /\ Len(Lookup(record, LastField.name).s) = 1

\* ------------------------------------------------------------------- C7
\* <output_folder>/<N>_<schema_basename>.jsonl
C7_ExpectedFile ==
    [dir |-> output_folder, n |-> num_records,
     stem |-> SplitextRoot(Basename(schema_file)), ext |-> ".jsonl"]

\* C7: the run writes to <output_folder>/<N>_<schema_basename>.jsonl and to
\* no other file, and opening truncates: whatever the file held before, it
\* holds only the i records of this run, N of them once the run completes.
C7_TruncateOnRerun ==
    /\ output_file \in {NoFile, C7_ExpectedFile}
    /\ DOMAIN files \subseteq {C7_ExpectedFile}
    /\ Opened =>
          /\ output_file = C7_ExpectedFile
          /\ \A k \in 1..Len(Content) : Content[k].t # "text"
          /\ Len(JsonLines(Content)) = i
    /\ pc = "done" => Len(JsonLines(Content)) = num_records

\* a second run over a file that held the lines of the first has completed
C7_Witness ==
    /\ runs = 2
    /\ pc = "done"
    /\ num_records = 2
    /\ Len(JsonLines(Content)) = 2

\* ------------------------------------------------------------------- C8
\* C8: in a run whose schema file cannot be loaded, main fails at the load:
\* generate_dummy_data never starts, no folder is created and no file is
\* created, truncated or written.
C8_LoadErrorNoEffects ==
    [][ LoadFails =>
          /\ dirs' = dirs
          /\ files' = files
          /\ output_file' = NoFile
          /\ pc' \in {"main", "failed"}
          /\ (pc = "main" => pc' = "failed" /\ err' # "") ]_vars

\* the run of a malformed schema file has failed, the folder does not exist
C8_Witness ==
    /\ pc = "failed"
    /\ LoadFails
    /\ OnDisk(schema_file)
    /\ err = "JSONDecodeError"
    /\ dirs = {}

\* ------------------------------------------------------------------- C9
C9_FailsAtFirstIteration ==
    /\ pc \in {"main", "generate", "open", "loop", "failed"}
    /\ (pc = "loop" => i = 0)
    /\ (pc = "failed" =>
          /\ err = "KeyError: 'fields'"
          /\ "unset" \notin DOMAIN schema
          /\ Content = <<>>)

\* C9 as stated: for every record count, a schema without `fields` never
\* completes, fails when the fields are first iterated, not in the loader,
\* and has written no record line by then.
C9_Original == LacksFields => C9_FailsAtFirstIteration

\* C9 amended: the same, for every record count N >= 1.
C9_FatalWhenRecordsRequested ==
    (LacksFields /\ num_records >= 1) => C9_FailsAtFirstIteration

\* the run of a schema without `fields`, asked for records, has failed
C9_Witness ==
    /\ LacksFields
    /\ num_records >= 1
    /\ pc = "failed"
    /\ err = "KeyError: 'fields'"

\* ------------------------------------------------------------------ C10
\* whether a definition selects a generator, from its type and doc alone
C10_SelectsGenerator(f) ==
    IF f.type.dict
    THEN /\ "type" \in DOMAIN f.type.obj
         /\ f.type.obj.type = "string"
         /\ "maxLength" \in DOMAIN f.type.obj
    ELSE \/ f.type.tag \in {"int", "string"}
         \/ /\ f.type.tag = "double"
            /\ (StartsWithNumber(FieldDoc(f)) => C4_PrefixForm(FieldDoc(f)))

C10_KeySet ==
    { schema.fields[k].name :
        k \in { l \in 1..Len(schema.fields) : C10_SelectsGenerator(schema.fields[l]) } }

\* C10: every record of a run has the same key set, the names of the fields
\* whose definition selects a generator, whatever values were drawn.
C10_SameKeySetEveryRecord ==
    Opened => \A n \in 1..Len(JsonLines(Content)) :
                 Keys(JsonLines(Content)[n].obj) = C10_KeySet

\* two records with different values, of a schema with an omitted field
C10_Witness ==
    /\ Opened
    /\ Len(JsonLines(Content)) = 2
    /\ JsonLines(Content)[1] # JsonLines(Content)[2]
    /\ C10_KeySet # FieldNames
    /\ C10_KeySet # {}

====
